---- MODULE Spec2Model ----
(***************************************************************************)
(* The HTTP request layer of the disk cache (src/cache/http.go): key       *)
(* parsing, the registry of ongoing uploads, the space handshake, the      *)
(* temp-file-plus-rename writer and the responses and access-log lines of  *)
(* CacheHandler.  Each request is served by one goroutine; the actions     *)
(* below are the steps of that goroutine between two accesses to shared    *)
(* state (the cache index, the registry, the mutexes, the disk).           *)
(*                                                                         *)
(* The cache index (cache.go, lru.go) and the space ensurer                *)
(* (ensurespacer.go) are not part of the sources at hand; ContainsFile,    *)
(* AddFile, CurrSize and EnsureSpace are modelled from their contract in   *)
(* the specification, sections 5 and 6.                                    *)
(***************************************************************************)
EXTENDS Integers, Sequences, FiniteSets, TLC

(* ------------------------------ bounds --------------------------------- *)

\* Goroutines that serve requests at the same time.
NumProcs == 2

\* Requests received in one run.
MaxRequests == 4

\* maxBytes handed to NewHTTPCache: the storage budget in bytes.
MaxBytes == 2

Procs == 1..NumProcs

(* ------------------------------ inputs --------------------------------- *)

\* Request bodies, as byte sequences.  <<1>> is a proper prefix of <<1, 2>>,
\* so an interrupted transfer of the second leaves the first on disk.
Bodies == {<<1>>, <<1, 2>>}

\* crypto/sha256 followed by hex.EncodeToString, on the bodies of the model.
\* The digests are the real ones of the byte strings 01, 02, 01 02 and "".
SHA256(b) ==
    CASE b = <<>>     -> "e3b0c44298fc1c149afbf4c8996fb92427ae41e4649b934ca495991b7852b855"
      [] b = <<1>>    -> "4bf5122f344554c53bde2ebb8cd2b7e3d1600ad631c385a5d7cce23c7785459a"
      [] b = <<2>>    -> "dbc1b4c900ffe48d575b5da5c638040125f65db0fe3e24494b76ea986457d986"
      [] b = <<1, 2>> -> "a12871fee210fb8619291eaea194581cbd2531e4b23759d225f6806923f63222"

\* Request paths the clients send: a CAS key and an AC key of the same hash
\* (two different files), and a name that is no SHA-256 in hex.
URLs == { "/cas/" \o SHA256(<<1>>), "/ac/" \o SHA256(<<1>>), "/cas/4bf5" }

\* The (Body, ContentLength) of the PUT requests.  net/http delivers exactly
\* ContentLength bytes of body or a read error; a chunked upload has
\* ContentLength -1 and a body of any length.
PutInputs == { <<b, Len(b)>> : b \in Bodies } \cup { <<<<1, 2>>, -1>> }

Methods == {"GET", "PUT", "HEAD", "DELETE"}

\* h.cache.Dir(): the cacheDir handed to NewHTTPCache.
CacheDir == "/data"

(* ---------------------------- key parsing ------------------------------ *)

HexChars == {"a", "b", "c", "d", "e", "f",
             "0", "1", "2", "3", "4", "5", "6", "7", "8", "9"}

\* The {64} of blobNameSHA256.
HashLen == 64

HasSuffix(s, suf) ==
    /\ Len(s) >= Len(suf)
    /\ SubSeq(s, Len(s) - Len(suf) + 1, Len(s)) = suf

\* blobNameSHA256.FindStringSubmatch(url) for
\*   ^/?(.*/)?(ac/|cas/)([a-f0-9]{64})$
\* <<>> is Go's nil (no match); a match is <<m[0], m[1], m[2], m[3]>>.  The
\* last 64 characters are the hash, the bucket stands right before it, and
\* what is left must be empty or end with "/" (an optional "/" and an
\* optional group ending in "/") and hold no newline ('.' matches none).
blobNameSHA256(url) ==
    LET n    == Len(url)
        hash == SubSeq(url, n - HashLen + 1, n)
        rest == SubSeq(url, 1, n - HashLen)
        bkt  == IF HasSuffix(rest, "cas/") THEN "cas/"
                ELSE IF HasSuffix(rest, "ac/") THEN "ac/" ELSE ""
        pre  == SubSeq(rest, 1, Len(rest) - Len(bkt))
        grp  == IF pre # "" /\ Head(pre) = "/" THEN Tail(pre) ELSE pre
    IN  IF /\ n >= HashLen
           /\ \A i \in 1..HashLen : SubSeq(hash, i, i) \in HexChars
           /\ bkt # ""
           /\ pre = "" \/ HasSuffix(pre, "/")
           /\ \A i \in 1..Len(pre) : SubSeq(pre, i, i) # "\n"
        THEN <<url, grp, bkt, hash>>
        ELSE <<>>

\* filepath.Join on a directory, a bucket ("ac/" or "cas/") and a hash:
\* Join cleans the result, so the bucket's trailing slash is not doubled.
FilepathJoin(dir, bucket, name) ==
    LET b == IF HasSuffix(bucket, "/") THEN SubSeq(bucket, 1, Len(bucket) - 1)
             ELSE bucket
    IN  dir \o "/" \o b \o "/" \o name

NoItem == [err |-> TRUE, hash |-> "", absFilePath |-> "", verifyHash |-> FALSE]

\* cacheItemFromRequestPath: a cacheItem, or an error (err) and no item.
cacheItemFromRequestPath(url, baseDir) ==
    LET m     == blobNameSHA256(url)
        parts == SubSeq(m, 3, Len(m))
    IN  IF m = <<>> THEN NoItem
        ELSE IF Len(parts) # 2 THEN NoItem
        ELSE [err         |-> FALSE,
              hash        |-> parts[2],
              absFilePath |-> FilepathJoin(baseDir, parts[1], parts[2]),
              verifyHash  |-> parts[1] = "cas/"]

\* cacheItemFromRequestPath(r.URL.Path, h.cache.Dir()) for the request paths
\* of the model, computed once.
ParsedURL == [u \in URLs |-> cacheItemFromRequestPath(u, CacheDir)]

\* The final paths the requests of the model can name.
Paths == { ParsedURL[u].absFilePath : u \in { v \in URLs : ~ParsedURL[v].err } }

\* The cacheItem of a final path of the model.
ItemOfPath == [k \in Paths |->
                 CHOOSE it \in { ParsedURL[u] : u \in URLs } :
                     ~it.err /\ it.absFilePath = k]

(* ------------------------------- state --------------------------------- *)

VARIABLES
    pc,                 \* per goroutine: the next step of CacheHandler
    req,                \* per goroutine: r (Method, URL.Path, Body, ContentLength)
    item,               \* per goroutine: cacheItem
    resp,               \* per goroutine: w, what the client has been sent
    accessLog,          \* per goroutine: the codes logResponse printed for r
    uploadMux,          \* per goroutine: the handle startUpload returned (0: none)
    tmpFile,            \* per goroutine: the file at tmpName (its content)
    written,            \* per goroutine: the bytes io.Copy wrote
    events,             \* per goroutine (history): what the request has done so far
    ongoingUploads,     \* h.ongoingUploads: path -> handle
    ongoingUploadsMux,  \* h.ongoingUploadsMux: the goroutine holding it (0: free)
    locked,             \* the upload handles (sync.Mutex) that are locked
    files,              \* the disk: final path -> file
    index,              \* h.cache: path -> bytes accounted for it
    crashed,            \* the process has exited (log.Fatal)
    nreq,               \* requests received so far
    hist,               \* per path (history): renames, registrations, failures
    expect              \* per goroutine (history): what a GET was promised

vars == <<pc, req, item, resp, accessLog, uploadMux, tmpFile, written, events,
          ongoingUploads, ongoingUploadsMux, locked, files, index,
          crashed, nreq, hist, expect>>

\* A file is <<content>>; no file is <<>>.
NoFile == <<>>
File(content) == <<content>>

NoReq == [method |-> "", url |-> "", body |-> <<>>, cl |-> 0]

\* A fresh http.ResponseWriter: no status sent, no body bytes, no message text.
NoResp == [status |-> 0, body |-> <<>>, text |-> FALSE]

\* The history kept for a path, for stating the claims:
\*   renames  renames onto the path so far,
\*   adds     AddFile calls for the path so far,
\*   dirty    a PUT to the path carried a body that is not the key's content,
\*            was refused space or met an I/O failure, or the path was evicted,
\*   evicted  the space ensurer has evicted the path,
\*   good     a PUT whose body the key admits was received for the path,
\*   promise  the body of a PUT that was answered 200 for the path, with no
\*            eviction of the path since (a file, or NoFile).
NoHist == [renames |-> 0, adds |-> 0, dirty |-> FALSE, evicted |-> FALSE,
           good |-> FALSE, promise |-> NoFile]

(* ------------------------- net/http, as used --------------------------- *)

\* w.WriteHeader(code): the first status sent is the response's status; a
\* later call is superfluous and changes nothing.
WriteHeader(w, code) ==
    IF w.status = 0 THEN [w EXCEPT !.status = code] ELSE w

\* http.Error(w, msg, code): WriteHeader(code), then the message as the body.
HttpError(w, code) ==
    [WriteHeader(w, code) EXCEPT !.text = TRUE]

\* http.ServeFile(w, r, name): the file's content with 200, or net/http's own
\* 404 when the file cannot be opened.
ServeFile(w, file) ==
    IF file = NoFile THEN HttpError(w, 404)
    ELSE [WriteHeader(w, 200) EXCEPT !.body = file[1]]

(* --------------- the cache index and the space ensurer ----------------- *)

RECURSIVE SumBytes(_, _)
SumBytes(idx, S) ==
    IF S = {} THEN 0
    ELSE LET x == CHOOSE y \in S : TRUE
         IN  idx[x] + SumBytes(idx, S \ {x})

\* h.cache.CurrSize(), MaxSize(), ContainsFile(path).
CurrSize(idx) == SumBytes(idx, DOMAIN idx)
MaxSize == MaxBytes
ContainsFile(idx, path) == path \in DOMAIN idx

\* h.cache.AddFile(path, size): the path is in the index from now on and its
\* bytes are added to the current size.
CacheAddFile(idx, path, size) ==
    [q \in DOMAIN idx \cup {path} |->
        IF q = path
        THEN (IF path \in DOMAIN idx THEN idx[path] ELSE 0) + size
        ELSE idx[q]]

\* The index after the ensurer evicted the paths of `victims`.
Evict(idx, victims) == [q \in DOMAIN idx \ victims |-> idx[q]]

\* EnsureSpace(cache, addBytes), after its eviction: do the bytes fit?
EnoughSpace(idx, addBytes) == CurrSize(idx) + addBytes <= MaxSize

(* ------------------------- the upload registry ------------------------- *)

MuxIds == 1..NumProcs

\* &sync.Mutex{}: a handle no goroutine and no registry entry refers to.
NewMutex ==
    CHOOSE m \in MuxIds :
        /\ \A q \in Procs : uploadMux[q] # m
        /\ \A k \in DOMAIN ongoingUploads : ongoingUploads[k] # m
        /\ \A n \in MuxIds :
              ( /\ \A q \in Procs : uploadMux[q] # n
                /\ \A k \in DOMAIN ongoingUploads : ongoingUploads[k] # n ) => m <= n

\* delete(h.ongoingUploads, hash)
MapDelete(map, key) == [k \in DOMAIN map \ {key} |-> map[k]]

MapPut(map, key, val) ==
    [k \in DOMAIN map \cup {key} |-> IF k = key THEN val ELSE map[k]]

(* -------------------------------- Init --------------------------------- *)

\* NewHTTPCache on an empty cache directory: nothing loaded, no upload.
Init ==
    /\ pc = [p \in Procs |-> "idle"]
    /\ req = [p \in Procs |-> NoReq]
    /\ item = [p \in Procs |-> NoItem]
    /\ resp = [p \in Procs |-> NoResp]
    /\ accessLog = [p \in Procs |-> <<>>]
    /\ uploadMux = [p \in Procs |-> 0]
    /\ tmpFile = [p \in Procs |-> NoFile]
    /\ written = [p \in Procs |-> 0]
    /\ events = [p \in Procs |-> {}]
    /\ ongoingUploads = <<>>
    /\ ongoingUploadsMux = 0
    /\ locked = {}
    /\ files = [k \in Paths |-> NoFile]
    /\ index = <<>>
    /\ crashed = FALSE
    /\ nreq = 0
    /\ hist = [k \in Paths |-> NoHist]
    /\ expect = [p \in Procs |-> NoFile]

(* ------------------------------ actions -------------------------------- *)

Path(p) == item[p].absFilePath

\* logResponse(code): one line of the access log.
logResponse(log, code) == Append(log, code)

\* The body is what the key stands for: any body for an AC key, the content
\* whose digest is the key for a CAS key.
Admits(it, body) == ~it.verifyHash \/ SHA256(body) = it.hash

\* History: a request for `it` with `body` has been answered 200 to a PUT.
Promised(h, it, body) ==
    IF it.verifyHash /\ SHA256(body) = it.hash
    THEN [h EXCEPT ![it.absFilePath].promise = File(body)]
    ELSE h

\* A request arrives at CacheHandler (lines 110-132 and 179-183): the key is
\* parsed (400 on an error) and the method dispatched (405 on any other).
CacheHandler(p) ==
    /\ ~crashed
    /\ pc[p] = "idle"
    /\ nreq < MaxRequests
    /\ \E m \in Methods, u \in URLs :
       \E in \in (IF m = "PUT" THEN PutInputs ELSE {<<<<>>, 0>>}) :
          LET it == ParsedURL[u]
              b  == in[1]
              cl == in[2]
          IN
          /\ req' = [req EXCEPT ![p] = [method |-> m, url |-> u, body |-> b, cl |-> cl]]
          /\ item' = [item EXCEPT ![p] = it]
          /\ IF it.err
             THEN /\ resp' = [resp EXCEPT ![p] = HttpError(NoResp, 400)]
                  /\ accessLog' = [accessLog EXCEPT ![p] = logResponse(<<>>, 400)]
                  /\ pc' = [pc EXCEPT ![p] = "done"]
             ELSE IF m \in {"GET", "PUT", "HEAD"}
             THEN /\ resp' = [resp EXCEPT ![p] = NoResp]
                  /\ accessLog' = [accessLog EXCEPT ![p] = <<>>]
                  /\ pc' = [pc EXCEPT ![p] =
                               CASE m = "GET" -> "get" [] m = "PUT" -> "put"
                                 [] m = "HEAD" -> "head"]
             ELSE /\ resp' = [resp EXCEPT ![p] = HttpError(NoResp, 405)]
                  /\ accessLog' = [accessLog EXCEPT ![p] = logResponse(<<>>, 405)]
                  /\ pc' = [pc EXCEPT ![p] = "done"]
          /\ hist' = IF it.err \/ m # "PUT" THEN hist
                     ELSE IF Admits(it, b)
                     THEN [hist EXCEPT ![it.absFilePath].good = TRUE]
                     ELSE [hist EXCEPT ![it.absFilePath].dirty = TRUE]
          /\ expect' = [expect EXCEPT ![p] =
                          IF ~it.err /\ m = "GET" THEN hist[it.absFilePath].promise
                          ELSE NoFile]
    /\ nreq' = nreq + 1
    /\ UNCHANGED <<uploadMux, tmpFile, written, events, ongoingUploads,
                   ongoingUploadsMux, locked, files, index, crashed>>

\* GET, lines 134-138: the existence check.
GetContains(p) ==
    /\ ~crashed
    /\ pc[p] = "get"
    /\ IF ~ContainsFile(index, Path(p))
       THEN /\ resp' = [resp EXCEPT ![p] = WriteHeader(@, 404)]
            /\ accessLog' = [accessLog EXCEPT ![p] = logResponse(@, 404)]
            /\ events' = [events EXCEPT ![p] = @ \cup {"miss"}]
            /\ pc' = [pc EXCEPT ![p] = "done"]
       ELSE /\ pc' = [pc EXCEPT ![p] = "serve"]
            /\ events' = [events EXCEPT ![p] = @ \cup {"hit"}]
            /\ UNCHANGED <<resp, accessLog>>
    /\ UNCHANGED <<req, item, uploadMux, tmpFile, written, ongoingUploads,
                   ongoingUploadsMux, locked, files, index, crashed, nreq,
                   hist, expect>>

\* GET, lines 139-140: http.ServeFile, then logResponse(200) whatever it sent.
GetServeFile(p) ==
    /\ ~crashed
    /\ pc[p] = "serve"
    /\ resp' = [resp EXCEPT ![p] = ServeFile(@, files[Path(p)])]
    /\ accessLog' = [accessLog EXCEPT ![p] = logResponse(@, 200)]
    /\ pc' = [pc EXCEPT ![p] = "done"]
    /\ UNCHANGED <<req, item, uploadMux, tmpFile, written, events, ongoingUploads,
                   ongoingUploadsMux, locked, files, index, crashed, nreq,
                   hist, expect>>

\* HEAD, lines 173-178.  On a miss line 174 evaluates err.Error() with the
\* nil err of line 125: a nil-interface method call, so the handler panics
\* before http.Error is entered; net/http recovers the panic and drops the
\* connection, nothing is sent and nothing is logged.
HeadContains(p) ==
    /\ ~crashed
    /\ pc[p] = "head"
    /\ IF ~ContainsFile(index, Path(p))
       THEN /\ events' = [events EXCEPT ![p] = @ \cup {"miss", "panic"}]
            /\ UNCHANGED <<resp, accessLog>>
       ELSE /\ resp' = [resp EXCEPT ![p] = WriteHeader(@, 200)]
            /\ accessLog' = [accessLog EXCEPT ![p] = logResponse(@, 200)]
            /\ events' = [events EXCEPT ![p] = @ \cup {"hit"}]
    /\ pc' = [pc EXCEPT ![p] = "done"]
    /\ UNCHANGED <<req, item, uploadMux, tmpFile, written, ongoingUploads,
                   ongoingUploadsMux, locked, files, index, crashed, nreq,
                   hist, expect>>

\* h.discardUpload(w, r.Body): the body is read and dropped, then 200.
discardUpload(w) == WriteHeader(w, 200)

\* Faulty variant of PutFound: the existence check before the lock is left out.
PutFoundNever(idx, path) == FALSE

\* Line 142: whether the PUT's first existence check finds the key.
PutFound(idx, path) == ContainsFile(idx, path)

\* Line 151: whether the existence check under the upload lock finds the key.
PutFoundLocked(idx, path) == ContainsFile(idx, path)

\* PUT, lines 142-146: the existence check before any lock is taken.
PutContains(p) ==
    /\ ~crashed
    /\ pc[p] = "put"
    /\ IF PutFound(index, Path(p))
       THEN /\ resp' = [resp EXCEPT ![p] = discardUpload(@)]
            /\ accessLog' = [accessLog EXCEPT ![p] = logResponse(@, 200)]
            /\ events' = [events EXCEPT ![p] = @ \cup {"hit"}]
            /\ hist' = Promised(hist, item[p], req[p].body)
            /\ pc' = [pc EXCEPT ![p] = "done"]
       ELSE /\ pc' = [pc EXCEPT ![p] = "startUpload"]
            /\ UNCHANGED <<resp, accessLog, events, hist>>
    /\ UNCHANGED <<req, item, uploadMux, tmpFile, written, ongoingUploads,
                   ongoingUploadsMux, locked, files, index, crashed, nreq,
                   expect>>

\* startUpload, line 187: h.ongoingUploadsMux.Lock().
StartUploadLock(p) ==
    /\ ~crashed
    /\ pc[p] = "startUpload"
    /\ ongoingUploadsMux = 0
    /\ ongoingUploadsMux' = p
    /\ pc' = [pc EXCEPT ![p] = "startUpload.map"]
    /\ UNCHANGED <<req, item, resp, accessLog, uploadMux, tmpFile, written, events,
                   ongoingUploads, locked, files, index, crashed, nreq,
                   hist, expect>>

\* Faulty variant of StartUploadHandle: one handle for all the paths in flight.
StartUploadHandleShared(map, path) ==
    IF DOMAIN map # {} THEN map[CHOOSE k \in DOMAIN map : TRUE] ELSE NewMutex

\* The handle startUpload returns for a path: the registered one, or a new one.
StartUploadHandle(map, path) ==
    IF path \in DOMAIN map THEN map[path] ELSE NewMutex

\* startUpload, lines 188-195: look the handle up or register a new one, and
\* release the registry lock (deferred).
StartUpload(p) ==
    /\ ~crashed
    /\ pc[p] = "startUpload.map"
    /\ LET mux == StartUploadHandle(ongoingUploads, Path(p)) IN
          /\ ongoingUploads' = MapPut(ongoingUploads, Path(p), mux)
          /\ uploadMux' = [uploadMux EXCEPT ![p] = mux]
    /\ ongoingUploadsMux' = 0
    /\ events' = [events EXCEPT ![p] = @ \cup {"start"}]
    /\ pc' = [pc EXCEPT ![p] = "Lock"]
    /\ UNCHANGED <<req, item, resp, accessLog, tmpFile, written, locked, files,
                   index, crashed, nreq, hist, expect>>

\* Line 148: uploadMux.Lock() blocks while the handle is locked.
UploadMuxLock(p) ==
    /\ ~crashed
    /\ pc[p] = "Lock"
    /\ uploadMux[p] \notin locked
    /\ locked' = locked \cup {uploadMux[p]}
    /\ events' = [events EXCEPT ![p] = @ \cup {"lock"}]
    /\ pc' = [pc EXCEPT ![p] = "recheck"]
    /\ UNCHANGED <<req, item, resp, accessLog, uploadMux, tmpFile, written,
                   ongoingUploads, ongoingUploadsMux, files, index,
                   crashed, nreq, hist, expect>>

\* PUT, lines 151-155: the existence check under the upload lock.
PutRecheck(p) ==
    /\ ~crashed
    /\ pc[p] = "recheck"
    /\ IF PutFoundLocked(index, Path(p))
       THEN /\ resp' = [resp EXCEPT ![p] = discardUpload(@)]
            /\ accessLog' = [accessLog EXCEPT ![p] = logResponse(@, 200)]
            /\ events' = [events EXCEPT ![p] = @ \cup {"rehit"}]
            /\ hist' = Promised(hist, item[p], req[p].body)
            /\ pc' = [pc EXCEPT ![p] = "Unlock"]
       ELSE /\ pc' = [pc EXCEPT ![p] = "EnsureSpace"]
            /\ UNCHANGED <<resp, accessLog, events, hist>>
    /\ UNCHANGED <<req, item, uploadMux, tmpFile, written, ongoingUploads,
                   ongoingUploadsMux, locked, files, index, crashed, nreq,
                   expect>>

\* Faulty variant of AfterEnsureSpace: the return after the 507 is missing.
AfterEnsureSpaceNoReturn(ok) == "saveToDisk"

\* Faulty variant of AfterEnsureSpace: the 507 returns without the deferred
\* Unlock and stopUpload.
AfterEnsureSpaceNoDefer(ok) == IF ok THEN "saveToDisk" ELSE "done"

\* Lines 156-163: where the handler goes on after EnsureSpace answered `ok`:
\* to saveToDisk, or (after the 507) to its deferred calls.
AfterEnsureSpace(ok) == IF ok THEN "saveToDisk" ELSE "Unlock"

\* PUT, lines 156-162: h.ensureSpacer.EnsureSpace(h.cache, r.ContentLength).
\* The ensurer may evict entries (their files and their index entries) and
\* answers whether the bytes fit afterwards; a refusal is answered 507 and
\* logged to the error log only.
EnsureSpace(p) ==
    /\ ~crashed
    /\ pc[p] = "EnsureSpace"
    /\ \E victims \in SUBSET (DOMAIN index) :
          LET idx == Evict(index, victims)
              ok  == EnoughSpace(idx, req[p].cl)
              h1  == [k \in Paths |->
                        IF k \in victims
                        THEN [hist[k] EXCEPT !.dirty = TRUE, !.evicted = TRUE,
                                            !.promise = NoFile]
                        ELSE hist[k]]
          IN  /\ index' = idx
              /\ files' = [k \in Paths |-> IF k \in victims THEN NoFile ELSE files[k]]
              /\ expect' = [q \in Procs |->
                              IF Path(q) \in victims THEN NoFile ELSE expect[q]]
              /\ pc' = [pc EXCEPT ![p] = AfterEnsureSpace(ok)]
              /\ IF ok
                 THEN /\ events' = [events EXCEPT ![p] = @ \cup {"ensure"}]
                      /\ hist' = h1
                      /\ UNCHANGED resp
                 ELSE /\ resp' = [resp EXCEPT ![p] = HttpError(@, 507)]
                      /\ events' = [events EXCEPT ![p] = @ \cup {"ensure", "refused"}]
                      /\ hist' = [h1 EXCEPT ![Path(p)].dirty = TRUE]
    /\ UNCHANGED <<req, item, accessLog, uploadMux, tmpFile, written, ongoingUploads,
                   ongoingUploadsMux, locked, crashed, nreq>>

\* Faulty variant of saveToDiskCopy: the digest is not compared with the key.
saveToDiskCopyUnverified(info, data, readErr) ==
    IF readErr THEN "err" ELSE "ok"

\* saveToDisk, lines 215-230, once the copy has ended with `data` in the temp
\* file: "mismatch" (the CAS digest differs: the temp file is removed), "err"
\* (io.Copy returned an error) or "ok".
saveToDiskCopy(info, data, readErr) ==
    IF info.verifyHash /\ info.hash # SHA256(data) THEN "mismatch"
    ELSE IF readErr THEN "err"
    ELSE "ok"

\* saveToDisk, lines 210-230: the temp file is created and the body copied
\* into it (and hashed).  TempFile and the read of the body can each fail.
\* Lines 232-236 (Sync, Close) follow in the same step when Sync succeeds.
SaveToDisk(p) ==
    /\ ~crashed
    /\ pc[p] = "saveToDisk"
    /\ \E tmpErr \in BOOLEAN, n \in 0..Len(req[p].body), readErr \in BOOLEAN :
          LET data == SubSeq(req[p].body, 1, n)
              res  == saveToDiskCopy(item[p], data, readErr)
              fail == [hist EXCEPT ![Path(p)].dirty = TRUE]
          IN  /\ n < Len(req[p].body) => readErr
              /\ IF tmpErr
                 THEN /\ resp' = [resp EXCEPT ![p] = HttpError(@, 500)]
                      /\ events' = [events EXCEPT ![p] = @ \cup {"ioerr"}]
                      /\ hist' = fail
                      /\ pc' = [pc EXCEPT ![p] = "Unlock"]
                      /\ UNCHANGED <<tmpFile, written>>
                 ELSE IF res = "mismatch"
                 THEN /\ resp' = [resp EXCEPT ![p] = HttpError(@, 500)]
                      /\ events' = [events EXCEPT ![p] =
                            @ \cup {"tmp", "mismatch"} \cup
                              (IF readErr THEN {"ioerr"} ELSE {})]
                      /\ hist' = fail
                      /\ pc' = [pc EXCEPT ![p] = "Unlock"]
                      /\ UNCHANGED <<tmpFile, written>>
                 ELSE IF res = "err"
                 THEN /\ resp' = [resp EXCEPT ![p] = HttpError(@, 500)]
                      /\ events' = [events EXCEPT ![p] = @ \cup {"tmp", "ioerr"}]
                      /\ tmpFile' = [tmpFile EXCEPT ![p] = File(data)]
                      /\ hist' = fail
                      /\ pc' = [pc EXCEPT ![p] = "Unlock"]
                      /\ UNCHANGED written
                 ELSE /\ tmpFile' = [tmpFile EXCEPT ![p] = File(data)]
                      /\ written' = [written EXCEPT ![p] = n]
                      /\ events' = [events EXCEPT ![p] = @ \cup {"tmp"}]
                      /\ pc' = [pc EXCEPT ![p] = "Rename"]
                      /\ UNCHANGED <<resp, hist>>
    /\ UNCHANGED <<req, item, accessLog, uploadMux, ongoingUploads, ongoingUploadsMux,
                   locked, files, index, crashed, nreq, expect>>

\* saveToDisk, lines 232-235, when f.Sync() fails after a complete copy:
\* log.Fatal ends the process.  Every goroutine ends with it and what the
\* process held in memory (the index, the registry, the locks) is gone; the
\* disk stays as it is, with the temp file of this request on it.
SyncFatal(p) ==
    /\ ~crashed
    /\ pc[p] = "saveToDisk"
    /\ saveToDiskCopy(item[p], req[p].body, FALSE) = "ok"
    /\ crashed' = TRUE
    /\ pc' = [q \in Procs |-> IF q = p THEN "fatal" ELSE "exit"]
    /\ req' = [q \in Procs |-> IF q = p THEN req[p] ELSE NoReq]
    /\ item' = [q \in Procs |-> IF q = p THEN item[p] ELSE NoItem]
    /\ resp' = [q \in Procs |-> NoResp]
    /\ accessLog' = [q \in Procs |-> <<>>]
    /\ uploadMux' = [q \in Procs |-> 0]
    /\ tmpFile' = [q \in Procs |-> IF q = p THEN File(req[p].body) ELSE NoFile]
    /\ written' = [q \in Procs |-> IF q = p THEN Len(req[p].body) ELSE 0]
    /\ events' = [q \in Procs |->
                    IF q = p THEN events[p] \cup {"tmp", "ioerr", "fatal"} ELSE {}]
    /\ expect' = [q \in Procs |-> NoFile]
    /\ ongoingUploads' = <<>>
    /\ ongoingUploadsMux' = 0
    /\ locked' = {}
    /\ index' = <<>>
    /\ hist' = [hist EXCEPT ![Path(p)].dirty = TRUE]
    /\ UNCHANGED <<files, nreq>>

\* Line 244, after a failed rename: os.Remove(info.absFilePath).  The call
\* fails when there is no file at the path, and it can fail on a file that
\* is there; the failure is logged only (lines 245-247).
RenameCleanup(fs, info, removeErr) ==
    IF removeErr THEN fs ELSE [fs EXCEPT ![info.absFilePath] = NoFile]

\* Faulty variant of RenameError: the error of the cleanup is returned.
RenameErrorOfCleanup(renameErr, removeErr) == removeErr

\* Line 248: whether saveToDisk returns an error after a failed rename; that
\* error is err2, the rename's, whatever the cleanup did.
RenameError(renameErr, removeErr) == renameErr

\* saveToDisk, lines 239-250: os.Rename(tmpName, info.absFilePath); on a
\* failure the cleanup of line 244, and the rename's error is returned, which
\* the handler answers with 500 (lines 164-168).
Rename(p) ==
    /\ ~crashed
    /\ pc[p] = "Rename"
    /\ \E renameErr \in BOOLEAN, removeErr \in BOOLEAN :
          /\ (renameErr /\ files[Path(p)] = NoFile) => removeErr
          /\ ~renameErr => ~removeErr
          /\ IF ~renameErr
             THEN /\ files' = [files EXCEPT ![Path(p)] = tmpFile[p]]
                  /\ tmpFile' = [tmpFile EXCEPT ![p] = NoFile]
                  /\ events' = [events EXCEPT ![p] = @ \cup {"rename"}]
                  /\ hist' = [hist EXCEPT ![Path(p)].renames = @ + 1]
                  /\ pc' = [pc EXCEPT ![p] = "AddFile"]
                  /\ UNCHANGED <<resp, written>>
             ELSE /\ files' = RenameCleanup(files, item[p], removeErr)
                  /\ written' = [written EXCEPT ![p] = 0]
                  /\ events' = [events EXCEPT ![p] =
                        @ \cup {"ioerr", "renameErr"} \cup
                          (IF removeErr THEN {"removeErr"} ELSE {"cleanup"})]
                  /\ hist' = [hist EXCEPT ![Path(p)].dirty = TRUE]
                  /\ IF RenameError(renameErr, removeErr)
                     THEN /\ resp' = [resp EXCEPT ![p] = HttpError(@, 500)]
                          /\ pc' = [pc EXCEPT ![p] = "Unlock"]
                     ELSE /\ pc' = [pc EXCEPT ![p] = "AddFile"]
                          /\ UNCHANGED resp
                  /\ UNCHANGED tmpFile
    /\ UNCHANGED <<req, item, accessLog, uploadMux, ongoingUploads, ongoingUploadsMux,
                   locked, index, crashed, nreq, expect>>

\* PUT, lines 169-171: the object is registered, 200 is sent and logged.
AddFile(p) ==
    /\ ~crashed
    /\ pc[p] = "AddFile"
    /\ index' = CacheAddFile(index, Path(p), written[p])
    /\ resp' = [resp EXCEPT ![p] = WriteHeader(@, 200)]
    /\ accessLog' = [accessLog EXCEPT ![p] = logResponse(@, 200)]
    /\ events' = [events EXCEPT ![p] = @ \cup {"add"}]
    /\ hist' = [Promised(hist, item[p], req[p].body) EXCEPT ![Path(p)].adds = @ + 1]
    /\ pc' = [pc EXCEPT ![p] = "Unlock"]
    /\ UNCHANGED <<req, item, uploadMux, tmpFile, written, ongoingUploads,
                   ongoingUploadsMux, locked, files, crashed, nreq, expect>>

\* Line 150, deferred: uploadMux.Unlock().
UploadMuxUnlock(p) ==
    /\ ~crashed
    /\ pc[p] = "Unlock"
    /\ locked' = locked \ {uploadMux[p]}
    /\ events' = [events EXCEPT ![p] = @ \cup {"unlock"}]
    /\ pc' = [pc EXCEPT ![p] = "stopUpload"]
    /\ UNCHANGED <<req, item, resp, accessLog, uploadMux, tmpFile, written,
                   ongoingUploads, ongoingUploadsMux, files, index,
                   crashed, nreq, hist, expect>>

\* stopUpload (line 149, deferred), line 199: h.ongoingUploadsMux.Lock().
StopUploadLock(p) ==
    /\ ~crashed
    /\ pc[p] = "stopUpload"
    /\ ongoingUploadsMux = 0
    /\ ongoingUploadsMux' = p
    /\ pc' = [pc EXCEPT ![p] = "stopUpload.map"]
    /\ UNCHANGED <<req, item, resp, accessLog, uploadMux, tmpFile, written, events,
                   ongoingUploads, locked, files, index, crashed, nreq,
                   hist, expect>>

\* stopUpload, lines 200-202: the path's entry is deleted, whose ever it is,
\* and the registry lock released; the handler returns.
StopUpload(p) ==
    /\ ~crashed
    /\ pc[p] = "stopUpload.map"
    /\ ongoingUploads' = MapDelete(ongoingUploads, Path(p))
    /\ ongoingUploadsMux' = 0
    /\ uploadMux' = [uploadMux EXCEPT ![p] = 0]
    /\ events' = [events EXCEPT ![p] = @ \cup {"stop"}]
    /\ pc' = [pc EXCEPT ![p] = "done"]
    /\ UNCHANGED <<req, item, resp, accessLog, tmpFile, written, locked, files,
                   index, crashed, nreq, hist, expect>>

\* The handler has returned; the goroutine serves the next request.  A temp
\* file the request neither renamed nor removed stays on the disk, under a
\* name nothing refers to again.
Done(p) ==
    /\ ~crashed
    /\ pc[p] = "done"
    /\ pc' = [pc EXCEPT ![p] = "idle"]
    /\ req' = [req EXCEPT ![p] = NoReq]
    /\ item' = [item EXCEPT ![p] = NoItem]
    /\ resp' = [resp EXCEPT ![p] = NoResp]
    /\ accessLog' = [accessLog EXCEPT ![p] = <<>>]
    /\ written' = [written EXCEPT ![p] = 0]
    /\ events' = [events EXCEPT ![p] = {}]
    /\ expect' = [expect EXCEPT ![p] = NoFile]
    /\ tmpFile' = [tmpFile EXCEPT ![p] = NoFile]
    /\ UNCHANGED <<uploadMux, ongoingUploads, ongoingUploadsMux, locked, files,
                   index, crashed, nreq, hist>>

Next ==
    \E p \in Procs :
        \/ CacheHandler(p)
        \/ GetContains(p)
        \/ GetServeFile(p)
        \/ HeadContains(p)
        \/ PutContains(p)
        \/ StartUploadLock(p)
        \/ StartUpload(p)
        \/ UploadMuxLock(p)
        \/ PutRecheck(p)
        \/ EnsureSpace(p)
        \/ SaveToDisk(p)
        \/ SyncFatal(p)
        \/ Rename(p)
        \/ AddFile(p)
        \/ UploadMuxUnlock(p)
        \/ StopUploadLock(p)
        \/ StopUpload(p)
        \/ Done(p)

Spec == Init /\ [][Next]_vars

(* ------------------- key parsing on its own --------------------------- *)

RECURSIVE Rep(_, _)
Rep(c, n) == IF n = 0 THEN "" ELSE c \o Rep(c, n - 1)

\* Request paths (r.URL.Path, percent-decoded by net/http): a prefix, a
\* bucket and a last segment.
ParsePrefixes ==
    {"", "/", "/x/", "x/", "/a/b/", "//", "/cas/", "/a\nb/", "x", "/ac"}

ParseBuckets == {"ac/", "cas/", "bc/", "CAS/", "as/", "cas", ""}

ParseNames ==
    { SHA256(<<1>>), SHA256(<<>>), Rep("a", HashLen), Rep("0", HashLen),
      Rep("a", HashLen - 1), Rep("a", HashLen + 1),
      Rep("a", HashLen - 1) \o "g", "A" \o Rep("a", HashLen - 1),
      Rep("a", HashLen - 2) \o "/a", Rep("a", HashLen) \o "/", "" }

ParseURLs == { pre \o bkt \o name :
                 pre \in ParsePrefixes, bkt \in ParseBuckets, name \in ParseNames }

\* A request with one of these paths has arrived at goroutine 1.
ParseInit ==
    /\ pc = [p \in Procs |-> IF p = 1 THEN "parse" ELSE "idle"]
    /\ \E u \in ParseURLs :
          req = [p \in Procs |->
                   IF p = 1 THEN [method |-> "GET", url |-> u, body |-> <<>>, cl |-> 0]
                   ELSE NoReq]
    /\ item = [p \in Procs |-> NoItem]
    /\ resp = [p \in Procs |-> NoResp]
    /\ accessLog = [p \in Procs |-> <<>>]
    /\ uploadMux = [p \in Procs |-> 0]
    /\ tmpFile = [p \in Procs |-> NoFile]
    /\ written = [p \in Procs |-> 0]
    /\ events = [p \in Procs |-> {}]
    /\ ongoingUploads = <<>>
    /\ ongoingUploadsMux = 0
    /\ locked = {}
    /\ files = [k \in Paths |-> NoFile]
    /\ index = <<>>
    /\ crashed = FALSE
    /\ nreq = 1
    /\ hist = [k \in Paths |-> NoHist]
    /\ expect = [p \in Procs |-> NoFile]

\* Lines 125-130: the key is parsed; an error is answered 400 and logged.
ParsePath(p) ==
    /\ pc[p] = "parse"
    /\ LET it == cacheItemFromRequestPath(req[p].url, CacheDir) IN
          /\ item' = [item EXCEPT ![p] = it]
          /\ IF it.err
             THEN /\ resp' = [resp EXCEPT ![p] = HttpError(NoResp, 400)]
                  /\ accessLog' = [accessLog EXCEPT ![p] = logResponse(<<>>, 400)]
             ELSE UNCHANGED <<resp, accessLog>>
    /\ pc' = [pc EXCEPT ![p] = "parsed"]
    /\ UNCHANGED <<req, uploadMux, tmpFile, written, events, ongoingUploads,
                   ongoingUploadsMux, locked, files, index, crashed, nreq,
                   hist, expect>>

ParseNext == \E p \in Procs : ParsePath(p)

ParseSpec == ParseInit /\ [][ParseNext]_vars

(* ------------------------ fair scheduling ------------------------------ *)

\* The steps of a handler that is running: the Go scheduler runs every
\* runnable goroutine, a request body ends, and sync.Mutex hands a lock to a
\* goroutine that keeps waiting for it (starvation mode).  The arrival of
\* requests is not fair: clients may stop sending.
HandlerStep(p) ==
    \/ GetContains(p) \/ GetServeFile(p) \/ HeadContains(p) \/ PutContains(p)
    \/ StartUpload(p) \/ PutRecheck(p) \/ EnsureSpace(p)
    \/ SaveToDisk(p) \/ SyncFatal(p) \/ Rename(p) \/ AddFile(p)
    \/ UploadMuxUnlock(p) \/ StopUpload(p) \/ Done(p)

Fairness ==
    \A p \in Procs :
        /\ WF_vars(HandlerStep(p))
        /\ SF_vars(StartUploadLock(p))
        /\ SF_vars(UploadMuxLock(p))
        /\ SF_vars(StopUploadLock(p))

LiveSpec == Spec /\ Fairness

(* ----------------------------- the claims ------------------------------ *)

ItemOf(k) == ItemOfPath[k]

\* The request of p is between uploadMux.Lock() returning and
\* uploadMux.Unlock().
HoldsUploadLock(p) ==
    pc[p] \in {"recheck", "EnsureSpace", "saveToDisk", "Rename", "AddFile", "Unlock"}

IsPut(p) == req[p].method = "PUT" /\ ~item[p].err

\* C1: at most one writer per key at a time: no two PUTs to the same path
\* are both between acquiring their upload lock and releasing it.
C1_OneWriterPerKey ==
    \A p, q \in Procs :
        (p # q /\ HoldsUploadLock(p) /\ HoldsUploadLock(q)) => Path(p) # Path(q)

\* Every file at a final path holds the whole body of a PUT and, at a CAS
\* path, the content whose digest is the key.
PublishedFilesComplete ==
    \A k \in Paths :
        files[k] # NoFile =>
            /\ files[k][1] \in Bodies
            /\ ItemOf(k).verifyHash => SHA256(files[k][1]) = ItemOf(k).hash

\* A step changes the file at k by renaming the fully written temp file of a
\* PUT to k onto it.
RenamedOnto(k) ==
    \E p \in Procs :
        /\ pc[p] = "Rename" /\ pc'[p] = "AddFile" /\ Path(p) = k
        /\ tmpFile[p] = File(req[p].body)
        /\ files'[k] = tmpFile[p]

\* A step of the space ensurer evicts k.
EvictedBy(k) ==
    \E p \in Procs :
        /\ pc[p] = "EnsureSpace" /\ pc'[p] # "EnsureSpace"
        /\ files'[k] = NoFile /\ k \notin DOMAIN index'

\* C2: a file visible at a final path is complete and, for a CAS item, has
\* the key's digest, and the final path only ever changes by the rename of a
\* fully written and synced temp file (the ensurer's evictions apart).
C2_FinalPathOnlyByRename ==
    /\ []PublishedFilesComplete
    /\ [][\A k \in Paths :
            files'[k] # files[k] => (RenamedOnto(k) \/ EvictedBy(k))]_vars

\* The request of p is a PUT that can be answered 200: its body is what the
\* key admits, it was not refused space and it met no I/O failure.
SoundPut(p) ==
    /\ IsPut(p)
    /\ Admits(item[p], req[p].body)
    /\ events[p] \cap {"refused", "ioerr"} = {}

\* C3: the simultaneous PUTs to one new key (not evicted meanwhile) execute
\* the writer once, one rename onto the final path and one registration,
\* and each of them is answered 200; the others discard their body after
\* the check under the lock.
C3_OneWriteManyOk ==
    /\ \A k \in Paths :
          ~hist[k].evicted => hist[k].renames <= 1 /\ hist[k].adds <= 1
    /\ \A p \in Procs :
          (pc[p] = "done" /\ SoundPut(p)) =>
              /\ resp[p].status = 200
              /\ "rename" \in events[p] \/ events[p] \cap {"hit", "rehit"} # {}

\* The request of p is a PUT to a CAS key of a body with another digest.
MismatchedPut(p) ==
    IsPut(p) /\ item[p].verifyHash /\ SHA256(req[p].body) # item[p].hash

\* C4, as claimed: a PUT to a CAS key of content with another digest is
\* answered 500, leaves no temp file, no file at the final path and no
\* index entry.
C4_MismatchAnswers500 ==
    \A p \in Procs :
        (pc[p] = "done" /\ MismatchedPut(p)) =>
            /\ resp[p].status = 500
            /\ tmpFile[p] = NoFile
            /\ events[p] \cap {"rename", "add"} = {}

\* C4, amended: a PUT to a CAS key of content with another digest never
\* renames onto the final path, never removes it and never registers the
\* key; it is answered 200 when an existence check finds the key, 507 when
\* space is refused and 500 otherwise, and it leaves a temp file only when
\* the read of the body failed.  While no PUT of the key's content has been
\* received, the key is absent from the index and from the disk.
C4_MismatchNeverStored ==
    /\ \A p \in Procs :
          (pc[p] = "done" /\ MismatchedPut(p)) =>
              /\ events[p] \cap {"rename", "add", "cleanup"} = {}
              /\ resp[p].status =
                    IF events[p] \cap {"hit", "rehit"} # {} THEN 200
                    ELSE IF "refused" \in events[p] THEN 507
                    ELSE 500
              /\ tmpFile[p] # NoFile => "ioerr" \in events[p]
    /\ \A k \in Paths :
          (ItemOf(k).verifyHash /\ ~hist[k].good) =>
              ~ContainsFile(index, k) /\ files[k] = NoFile

\* C4, witness: a PUT whose digest differs was answered 500 after the writer
\* removed its temp file.
C4_Witness ==
    \E p \in Procs :
        /\ pc[p] = "done" /\ MismatchedPut(p)
        /\ "mismatch" \in events[p] /\ "ioerr" \notin events[p]
        /\ resp[p].status = 500 /\ tmpFile[p] = NoFile

\* C5: a PUT of content C to the CAS key sha256(C), granted space and
\* without I/O failure, is answered 200, and a GET received after that
\* answer, with no eviction of the key in between, is answered 200 with
\* exactly C.
C5_RoundTrip ==
    \A p \in Procs :
        pc[p] = "done" =>
            /\ (SoundPut(p) /\ item[p].verifyHash) => resp[p].status = 200
            /\ (req[p].method = "GET" /\ expect[p] # NoFile) =>
                   resp[p].status = 200 /\ resp[p].body = expect[p][1]

\* The step is the first existence check of p's PUT (line 142).
FirstCheckStep(p) == pc[p] = "put" /\ pc'[p] # "put" /\ ~crashed'

\* C6: a PUT to a key the index already contains is answered 200 with the
\* body discarded and one access-log line; it takes no upload lock and no
\* registry entry, calls neither the space ensurer nor the writer, registers
\* nothing, and leaves the files, the index, the registry and the locks as
\* they are.
C6_PutOfPresentKeyIsNoOp ==
    [][\A p \in Procs :
         (FirstCheckStep(p) /\ ContainsFile(index, Path(p))) =>
            /\ pc'[p] = "done"
            /\ resp'[p] = [status |-> 200, body |-> <<>>, text |-> FALSE]
            /\ accessLog'[p] = <<200>>
            /\ events'[p] \cap {"start", "lock", "ensure", "tmp", "rename", "add"} = {}
            /\ uploadMux'[p] = 0 /\ tmpFile'[p] = NoFile
            /\ UNCHANGED <<files, index, ongoingUploads, ongoingUploadsMux, locked>>]_vars

\* C6, witness: a PUT found its key in the index at the first check and has
\* returned.
C6_Witness ==
    \E p \in Procs :
        /\ pc[p] = "done" /\ IsPut(p) /\ "hit" \in events[p]
        /\ ContainsFile(index, Path(p)) /\ files[Path(p)] # NoFile

\* C7: a PUT the space ensurer refuses is answered 507; it creates no temp
\* file, renames nothing onto the final path and registers nothing; its
\* upload lock is released and the path's registry entry removed.
C7_RefusalWritesNothing ==
    /\ [](\A p \in Procs :
            "refused" \in events[p] =>
               /\ resp[p].status = 507
               /\ tmpFile[p] = NoFile
               /\ events[p] \cap {"tmp", "rename", "cleanup", "add"} = {}
               /\ pc[p] \in {"Unlock", "stopUpload", "stopUpload.map", "done"}
               /\ pc[p] = "done" => uploadMux[p] = 0)
    /\ [][\A p \in Procs :
            "refused" \in events[p] =>
               /\ (pc[p] = "EnsureSpace" /\ pc'[p] # "EnsureSpace") =>
                     files' = files /\ index' = index
               /\ (pc[p] = "Unlock" /\ pc'[p] = "stopUpload") =>
                     uploadMux[p] \notin locked'
               /\ (pc[p] = "stopUpload.map" /\ pc'[p] = "done") =>
                     Path(p) \notin DOMAIN ongoingUploads']_vars

\* C7, witness: a refused PUT has returned.
C7_Witness ==
    \E p \in Procs :
        /\ pc[p] = "done" /\ "refused" \in events[p]
        /\ resp[p].status = 507 /\ {"unlock", "stop"} \subseteq events[p]

\* C8: writes never exceed the budget: the index's current size never
\* exceeds its maximum size.
C8_WithinBudget == CurrSize(index) <= MaxSize

\* C9: a HEAD or a GET whose existence check misses ends with the single
\* status 404 and no body; a HEAD that finds the key ends with 200 and no
\* body.
C9_MissIs404 ==
    \A p \in Procs :
        (pc[p] = "done" /\ req[p].method \in {"GET", "HEAD"} /\ ~item[p].err) =>
            /\ "miss" \in events[p] =>
                  resp[p] = [status |-> 404, body |-> <<>>, text |-> FALSE]
            /\ (req[p].method = "HEAD" /\ "hit" \in events[p]) =>
                  resp[p] = [status |-> 200, body |-> <<>>, text |-> FALSE]

\* C10: every request that was handled and sent a status (200, 400, 404,
\* 405, 500, 507) left exactly one access-log line, whose code is the status
\* sent to the client.
C10_OneAccessLogLine ==
    \A p \in Procs :
        (pc[p] = "done" /\ resp[p].status # 0) => accessLog[p] = <<resp[p].status>>

\* With no failed PUT and no eviction of a path, one rename and one
\* registration at most, and every PUT to it that returned was answered 200.
OneWriteWhenAllSucceed ==
    \A k \in Paths :
        ~hist[k].dirty =>
            /\ hist[k].renames <= 1 /\ hist[k].adds <= 1
            /\ \A p \in Procs :
                  (pc[p] = "done" /\ IsPut(p) /\ Path(p) = k) => resp[p].status = 200

\* C11: no failure during a request is fatal to the server process: the
\* process keeps running, every request that returned was sent a response,
\* and it holds no upload handle any more.
C11_NoFatalError ==
    /\ ~crashed
    /\ \A p \in Procs :
          pc[p] = "done" => resp[p].status # 0 /\ uploadMux[p] = 0

\* The request of p is between startUpload's return and the end of its
\* stopUpload: it waits for, holds or has just released an upload handle.
InFlight(p) ==
    pc[p] \in {"Lock", "recheck", "EnsureSpace", "saveToDisk", "Rename", "AddFile",
               "Unlock", "stopUpload", "stopUpload.map"}

\* C12: PUTs to different paths are not serialized: they never have the
\* same upload handle, a PUT waits at uploadMux.Lock() only while a PUT to
\* the same path holds that handle, and the registry lock is held only
\* inside startUpload and stopUpload.
C12_DifferentPathsNotSerialized ==
    /\ \A p, q \in Procs :
          (p # q /\ uploadMux[p] # 0 /\ uploadMux[q] # 0 /\ Path(p) # Path(q)) =>
              uploadMux[p] # uploadMux[q]
    /\ \A p \in Procs :
          (pc[p] = "Lock" /\ uploadMux[p] \in locked) =>
              \E q \in Procs \ {p} :
                  /\ HoldsUploadLock(q) /\ Path(q) = Path(p)
                  /\ uploadMux[q] = uploadMux[p]
    /\ \A p \in Procs :
          ongoingUploadsMux = p => pc[p] \in {"startUpload.map", "stopUpload.map"}

\* C12, witness: two PUTs to different paths hold their upload locks at the
\* same time, both with their temp file written.
C12_Witness ==
    \E p, q \in Procs :
        /\ p # q /\ Path(p) # Path(q)
        /\ pc[p] = "Rename" /\ pc[q] = "Rename"
        /\ uploadMux[p] \in locked /\ uploadMux[q] \in locked

\* C13: the index is updated only after the write has completed: every path
\* the index contains has a complete published file.
C13_IndexedFilesExist ==
    \A k \in DOMAIN index :
        files[k] # NoFile /\ files[k][1] \in Bodies

\* C14: the registry has an entry for a path exactly while some PUT to the
\* path is between startUpload and the end of its stopUpload, and every such
\* PUT has the handle registered for its path.
C14_RegistryIffInFlight ==
    /\ \A k \in Paths :
          k \in DOMAIN ongoingUploads <=> \E p \in Procs : InFlight(p) /\ Path(p) = k
    /\ \A p \in Procs :
          InFlight(p) => ongoingUploads[Path(p)] = uploadMux[p]

\* C15: every PUT that called startUpload unlocked its handle and called
\* stopUpload before it returned, on every exit path; whenever no PUT is
\* between startUpload and its return, the registry is empty and no upload
\* handle is locked.
C15_NoRegistryLeak ==
    /\ \A p \in Procs :
          (pc[p] = "done" /\ "start" \in events[p]) =>
              /\ {"lock", "unlock", "stop"} \subseteq events[p]
              /\ uploadMux[p] = 0
    /\ (\A p \in Procs : ~InFlight(p)) => (ongoingUploads = <<>> /\ locked = {})

\* C15, witness: a PUT whose write failed has returned and no PUT is in
\* flight.
C15_Witness ==
    /\ \A p \in Procs : ~InFlight(p)
    /\ \E p \in Procs :
          /\ pc[p] = "done" /\ resp[p].status = 500
          /\ {"start", "lock", "unlock", "stop"} \subseteq events[p]

\* The request of p is being handled: received and not yet returned.
Handling(p) == pc[p] \notin {"idle", "done", "fatal", "exit"}

\* C16: progress under fair scheduling: every PUT waiting at uploadMux.Lock()
\* acquires the lock, and every request that is being handled returns with
\* a response sent.
C16_Progress ==
    \A p \in Procs :
        /\ (pc[p] = "Lock") ~> (pc[p] = "recheck")
        /\ Handling(p) ~> (pc[p] = "done" /\ resp[p].status # 0)

\* The registry lock is held only inside startUpload and stopUpload, where
\* its holder waits for nothing, and some step is possible in every state
\* with a request being handled.
NoDeadlock ==
    /\ \A p \in Procs :
          ongoingUploadsMux = p => pc[p] \in {"startUpload.map", "stopUpload.map"}
    /\ (\E p \in Procs : Handling(p)) => ENABLED (\E p \in Procs : HandlerStep(p)
                                                    \/ StartUploadLock(p)
                                                    \/ UploadMuxLock(p)
                                                    \/ StopUploadLock(p))

\* C17: a PUT whose rename failed is answered 500 with the error's text,
\* whether the cleanup removed something or failed; it registers nothing,
\* its upload lock is released and the path's registry entry removed.
C17_RenameFailureIs500 ==
    /\ [](\A p \in Procs :
            "renameErr" \in events[p] =>
               /\ resp[p].status = 500 /\ resp[p].text
               /\ "add" \notin events[p]
               /\ pc[p] \in {"Unlock", "stopUpload", "stopUpload.map", "done"}
               /\ pc[p] = "done" =>
                     uploadMux[p] = 0 /\ {"unlock", "stop"} \subseteq events[p])
    /\ [][\A p \in Procs :
            "renameErr" \in events[p] =>
               /\ (pc[p] = "Unlock" /\ pc'[p] = "stopUpload") =>
                     uploadMux[p] \notin locked'
               /\ (pc[p] = "stopUpload.map" /\ pc'[p] = "done") =>
                     Path(p) \notin DOMAIN ongoingUploads'
               /\ (pc'[p] # pc[p] /\ ~crashed') => index' = index]_vars

\* C17, witness: a PUT whose rename failed, and whose cleanup failed too,
\* has returned with 500.
C17_Witness ==
    \E p \in Procs :
        /\ pc[p] = "done" /\ {"renameErr", "removeErr"} \subseteq events[p]
        /\ resp[p].status = 500 /\ ~ContainsFile(index, Path(p))

\* The position of the last "/" of s (0: none).
RECURSIVE LastSlash(_)
LastSlash(s) ==
    IF s = "" THEN 0
    ELSE IF SubSeq(s, Len(s), Len(s)) = "/" THEN Len(s)
    ELSE LastSlash(SubSeq(s, 1, Len(s) - 1))

LastSegment(s) == SubSeq(s, LastSlash(s) + 1, Len(s))

\* What is before the last segment and its "/".
Dir(s) == SubSeq(s, 1, LastSlash(s) - 1)

IsHex64(s) == Len(s) = 64 /\ \A i \in 1..Len(s) : SubSeq(s, i, i) \in HexChars

\* The path is [prefix/]ac/h or [prefix/]cas/h with h of 64 hex characters.
IsKeyPath(u) ==
    /\ LastSlash(u) > 0
    /\ IsHex64(LastSegment(u))
    /\ LastSegment(Dir(u)) \in {"ac", "cas"}

\* C18: a path whose last segment is 64 characters of [a-f0-9] and whose
\* segment before it is ac or cas, after any prefix, parses to the item
\* with that hash, verifyHash being true exactly for cas; any other path
\* fails to parse and yields no item.
C18_KeyParsing ==
    \A p \in Procs :
        pc[p] = "parsed" =>
            IF IsKeyPath(req[p].url)
            THEN /\ ~item[p].err
                 /\ item[p].hash = LastSegment(req[p].url)
                 /\ item[p].verifyHash = (LastSegment(Dir(req[p].url)) = "cas")
            ELSE item[p] = NoItem

\* The path has no line break.
OneLine(s) == \A i \in 1..Len(s) : SubSeq(s, i, i) # "\n"

\* The same for the paths without a line break.
KeyParsingOnOneLine ==
    \A p \in Procs :
        (pc[p] = "parsed" /\ OneLine(req[p].url)) =>
            IF IsKeyPath(req[p].url)
            THEN /\ ~item[p].err
                 /\ item[p].hash = LastSegment(req[p].url)
                 /\ item[p].verifyHash = (LastSegment(Dir(req[p].url)) = "cas")
                 /\ item[p].absFilePath =
                       CacheDir \o "/" \o LastSegment(Dir(req[p].url)) \o "/"
                                \o LastSegment(req[p].url)
            ELSE item[p] = NoItem

\* C19: an object is never registered twice: AddFile is called for a path
\* only when the index does not contain the path.
C19_NeverRegisteredTwice ==
    \A p \in Procs : pc[p] = "AddFile" => ~ContainsFile(index, Path(p))

\* The step is one of p's GET or HEAD.
ReaderStep(p) ==
    pc[p] \in {"get", "serve", "head"} /\ pc'[p] # pc[p] /\ ~crashed'

\* C20: readers are never blocked by writers: a GET or a HEAD can always
\* take its next step, its steps leave the registry, the locks, the index
\* and the files alone, its existence check answers from the index alone,
\* and a key the index lacks is reported absent with 404.
C20_ReadersNeverBlocked ==
    /\ [](\A p \in Procs :
            /\ pc[p] \in {"get", "serve", "head"} =>
                  ENABLED (GetContains(p) \/ GetServeFile(p) \/ HeadContains(p))
            /\ (pc[p] = "done" /\ req[p].method \in {"GET", "HEAD"}
                  /\ "miss" \in events[p]) => resp[p].status = 404
            /\ (pc[p] \notin {"idle", "exit"} /\ req[p].method \in {"GET", "HEAD"}) =>
                  uploadMux[p] = 0 /\ ongoingUploadsMux # p)
    /\ [][\A p \in Procs :
            ReaderStep(p) =>
               /\ UNCHANGED <<ongoingUploads, ongoingUploadsMux, locked, uploadMux,
                              files, index>>
               /\ pc[p] \in {"get", "head"} =>
                     ("miss" \in events'[p] <=> ~ContainsFile(index, Path(p)))]_vars

\* The same without the status of the answer: readers never wait, leave the
\* registry, the locks, the index and the files alone and decide from the
\* index alone; a GET of a key the index lacks is answered 404.
ReadersLeaveUploadsAlone ==
    /\ [](\A p \in Procs :
            /\ pc[p] \in {"get", "serve", "head"} =>
                  ENABLED (GetContains(p) \/ GetServeFile(p) \/ HeadContains(p))
            /\ (pc[p] = "done" /\ req[p].method = "GET"
                  /\ "miss" \in events[p]) => resp[p].status = 404
            /\ (pc[p] \notin {"idle", "exit"} /\ req[p].method \in {"GET", "HEAD"}) =>
                  uploadMux[p] = 0 /\ ongoingUploadsMux # p)
    /\ [][\A p \in Procs :
            ReaderStep(p) =>
               /\ UNCHANGED <<ongoingUploads, ongoingUploadsMux, locked, uploadMux,
                              files, index>>
               /\ pc[p] \in {"get", "head"} =>
                     ("miss" \in events'[p] <=> ~ContainsFile(index, Path(p)))]_vars

====
